---- MODULE Spec2Model ----
(***************************************************************************)
(* URL-to-Markdown service (src/main.py): the request handler convert_url, *)
(* the coroutine _convert and the worker function _run it sends to a       *)
(* thread, as one state machine per request.                               *)
(*                                                                         *)
(* Strings are TLA+ strings; bodies are modelled by their length in bytes. *)
(* What lies outside the repository (the remote server, the requests       *)
(* library, chardet, the codec registry, markitdown, the file system) is   *)
(* an environment whose answers are chosen with \E at the step that asks.  *)
(***************************************************************************)
EXTENDS Integers, Sequences, FiniteSets, TLC

(***************************************************************************)
(* Bounds of the model                                                     *)
(***************************************************************************)
\* number of request slots (requests that can be in flight together)
NReq == 2
\* number of names the temporary directory can hand out
MaxTempNames == 2
\* how many full chunks beyond "one byte over the limit" a remote body may hold
MaxOverrun == 1

Req == 1..NReq
TempNames == 1..MaxTempNames

(***************************************************************************)
(* Configuration constants, src/main.py:24 and :101                        *)
(***************************************************************************)
MAX_CONTENT_SIZE == 10 * 1024 * 1024
CHUNK_SIZE == 8192

(***************************************************************************)
(* String helpers (str.startswith, "in", str.split(...)[-1], str.strip)    *)
(***************************************************************************)
CharAt(s, i) == SubSeq(s, i, i)

Drop(s, n) == SubSeq(s, n + 1, Len(s))

StartsWith(s, p) == Len(s) >= Len(p) /\ SubSeq(s, 1, Len(p)) = p

\* positions where sub occurs in s
Occurrences(s, sub) ==
    { i \in 1..(Len(s) - Len(sub) + 1) : SubSeq(s, i, i + Len(sub) - 1) = sub }

Contains(s, sub) == Occurrences(s, sub) # {}

Min(S) == CHOOSE x \in S : \A y \in S : x <= y
Max(S) == CHOOSE x \in S : \A y \in S : x >= y

\* s.split(sep)[-1]: what follows the last occurrence of sep (s itself if none)
SplitLast(s, sep) ==
    IF Contains(s, sep) THEN Drop(s, Max(Occurrences(s, sep)) + Len(sep) - 1) ELSE s

Whitespace == {" ", "\t", "\n", "\r"}

RECURSIVE LStrip(_)
LStrip(s) == IF s # "" /\ CharAt(s, 1) \in Whitespace THEN LStrip(Drop(s, 1)) ELSE s

RECURSIVE RStrip(_)
RStrip(s) ==
    IF s # "" /\ CharAt(s, Len(s)) \in Whitespace
    THEN RStrip(SubSeq(s, 1, Len(s) - 1)) ELSE s

Strip(s) == LStrip(RStrip(s))

(***************************************************************************)
(* urllib.parse.unquote (src/main.py:55): every %XX with two hex digits    *)
(* becomes the character with that code; anything else is kept.  Codes     *)
(* outside printable ASCII decode to the replacement mark.                 *)
(***************************************************************************)
HexUpper == "0123456789ABCDEF"
HexLower == "0123456789abcdef"
PrintableLow ==
    " !\"#$%&'()*+,-./0123456789:;<=>?@ABCDEFGHIJKLMNOPQRSTUVWXYZ[\\]^_"
PrintableHigh == "abcdefghijklmnopqrstuvwxyz{|}~"
ReplacementMark == "<?>"

IsHex(c) == \E v \in 1..16 : CharAt(HexUpper, v) = c \/ CharAt(HexLower, v) = c

HexVal(c) == (CHOOSE v \in 1..16 : CharAt(HexUpper, v) = c \/ CharAt(HexLower, v) = c) - 1

\* code 96 (the backquote) has no TLA+ string literal and is left out
Chr(n) ==
    IF n >= 32 /\ n <= 95 THEN CharAt(PrintableLow, n - 31)
    ELSE IF n >= 97 /\ n <= 126 THEN CharAt(PrintableHigh, n - 96)
    ELSE ReplacementMark

\* the mutant of unquote for C10: the path is compared without decoding it
unquote_NoDecoding(s) == s

RECURSIVE unquote(_)
unquote(s) ==
    IF s = "" THEN ""
    ELSE IF /\ CharAt(s, 1) = "%"
            /\ Len(s) >= 3
            /\ IsHex(CharAt(s, 2))
            /\ IsHex(CharAt(s, 3))
         THEN Chr(16 * HexVal(CharAt(s, 2)) + HexVal(CharAt(s, 3)))
                 \o unquote(Tail(Tail(Tail(s))))
         ELSE CharAt(s, 1) \o unquote(Tail(s))

(***************************************************************************)
(* urllib.parse.urlparse(...).netloc (src/main.py:83-84), as urlsplit      *)
(* computes it: a leading scheme (a letter, then scheme characters, up to  *)
(* the first ':') is cut off, and when the rest starts with "//" the       *)
(* authority runs to the first '/', '?' or '#'.                            *)
(***************************************************************************)
Letters == "abcdefghijklmnopqrstuvwxyzABCDEFGHIJKLMNOPQRSTUVWXYZ"
SchemeChars == Letters \o "0123456789+-."

InString(c, s) == \E i \in 1..Len(s) : CharAt(s, i) = c

AfterScheme(url) ==
    LET colons == Occurrences(url, ":")
        i == IF colons = {} THEN 0 ELSE Min(colons)
    IN  IF /\ i > 1
           /\ InString(CharAt(url, 1), Letters)
           /\ \A k \in 1..(i - 1) : InString(CharAt(url, k), SchemeChars)
        THEN Drop(url, i)
        ELSE url

Netloc(url) ==
    LET rest == AfterScheme(url)
    IN  IF StartsWith(rest, "//")
        THEN LET r2 == Drop(rest, 2)
                 stops == { i \in 1..Len(r2) : CharAt(r2, i) \in {"/", "?", "#"} }
             IN  SubSeq(r2, 1, IF stops = {} THEN Len(r2) ELSE Min(stops) - 1)
        ELSE ""

\* urlsplit raises ValueError("Invalid IPv6 URL") on unbalanced brackets
UrlparseRaises(url) ==
    LET n == Netloc(url)
    IN  \/ Contains(n, "[") /\ ~Contains(n, "]")
        \/ Contains(n, "]") /\ ~Contains(n, "[")

(***************************************************************************)
(* session.get refuses a URL before connecting (requests' prepare_url      *)
(* raises InvalidURL) when the authority names no host or the host starts  *)
(* with '*' or '.'  (src/main.py:96)                                       *)
(***************************************************************************)
Host(netloc) ==
    LET ats == Occurrences(netloc, "@")
        hp == IF ats = {} THEN netloc ELSE Drop(netloc, Max(ats))
        closes == Occurrences(hp, "]")
        colons == Occurrences(hp, ":")
    IN  IF StartsWith(hp, "[") /\ closes # {} THEN SubSeq(hp, 1, Min(closes))
        ELSE IF colons = {} THEN hp
        ELSE SubSeq(hp, 1, Min(colons) - 1)

RequestsRejects(url) ==
    LET host == Host(Netloc(url))
    IN  host = "" \/ StartsWith(host, "*") \/ StartsWith(host, ".")

(***************************************************************************)
(* Exceptions: a class name and a message.  Bases gives each class the     *)
(* classes an "except" clause naming them catches (src/main.py:4, :10 and  *)
(* the builtins).                                                          *)
(***************************************************************************)
Exc(cls, msg) == [cls |-> cls, msg |-> msg]

Bases(cls) ==
    CASE cls = "ValueError" -> {"ValueError", "Exception"}
      [] cls = "InvalidURL" ->
            {"InvalidURL", "RequestException", "ValueError", "OSError", "Exception"}
      [] cls = "ConnectionError" ->
            {"ConnectionError", "RequestException", "OSError", "Exception"}
      [] cls = "HTTPError" -> {"HTTPError", "RequestException", "OSError", "Exception"}
      [] cls = "ChunkedEncodingError" ->
            {"ChunkedEncodingError", "RequestException", "OSError", "Exception"}
      [] cls = "UnsupportedFormatException" ->
            {"UnsupportedFormatException", "MarkItDownException", "Exception"}
      [] cls = "FileConversionException" ->
            {"FileConversionException", "MarkItDownException", "Exception"}
      [] cls = "TimeoutError" -> {"TimeoutError", "Exception"}
      [] OTHER -> {cls, "Exception"}

IsInstance(e, cls) == cls \in Bases(e.cls)

(***************************************************************************)
(* The except clauses of convert_url, in their order (src/main.py:157-186) *)
(* Each raises an HTTPException, which the outer "except HTTPException:    *)
(* raise" (src/main.py:189-190) passes on unchanged to the framework.      *)
(***************************************************************************)
HTTPException(status_code, detail) == [status |-> status_code, body |-> detail]

\* the mutant of ExceptClauses for C5: the two converter clauses are missing
ExceptClauses_NoConverterClauses(e) ==
    IF IsInstance(e, "TimeoutError")
    THEN HTTPException(504, "Conversion timed out. Please try again later.")
    ELSE IF IsInstance(e, "RequestException")
    THEN HTTPException(502, "Failed to fetch URL: " \o e.msg)
    ELSE IF IsInstance(e, "ValueError")
    THEN HTTPException(400, e.msg)
    ELSE HTTPException(500, "Internal server error: " \o e.msg)

ExceptClauses(e) ==
    IF IsInstance(e, "UnsupportedFormatException")
    THEN HTTPException(415, "Unsupported URL format: " \o e.msg)
    ELSE IF IsInstance(e, "FileConversionException")
    THEN HTTPException(400, "URL conversion failed: " \o e.msg)
    ELSE IF IsInstance(e, "TimeoutError")
    THEN HTTPException(504, "Conversion timed out. Please try again later.")
    ELSE IF IsInstance(e, "RequestException")
    THEN HTTPException(502, "Failed to fetch URL: " \o e.msg)
    ELSE IF IsInstance(e, "ValueError")
    THEN HTTPException(400, e.msg)
    ELSE HTTPException(500, "Internal server error: " \o e.msg)

WelcomeText == "Welcome to URL to Markdown API\nUsage: https://markdown.nimk.ir/YOUR_URL"

\* the plain responses of the routes (src/main.py:33, :49-52, :61-65, :154)
Response(status_code, content) == [status |-> status_code, body |-> content]

(***************************************************************************)
(* The raw path of a request (src/main.py:40-44) and the normalization of  *)
(* the decoded path (src/main.py:69-73)                                    *)
(***************************************************************************)
\* the mutant of RawUrl for C9: the query string is not appended
RawUrl_IgnoresQuery(path, query) == Drop(path, 1)

RawUrl(path, query) ==
    IF query = "" THEN Drop(path, 1) ELSE Drop(path, 1) \o "?" \o query

NuisancePaths == {"favicon.ico", "robots.txt", "sitemap.xml"}

\* the mutant of Normalize for C11: "www." is prefixed to every path without
\* a scheme, also to one that starts with "www."
Normalize_AlwaysWww(decoded) ==
    IF ~(StartsWith(decoded, "http://") \/ StartsWith(decoded, "https://"))
    THEN "https://www." \o decoded
    ELSE decoded

\* the mutant of Normalize for C20: a path without a scheme gets "https://"
\* only
Normalize_NoWww(decoded) ==
    IF ~(StartsWith(decoded, "http://") \/ StartsWith(decoded, "https://"))
    THEN "https://" \o decoded
    ELSE decoded

Normalize(decoded) ==
    IF ~(StartsWith(decoded, "http://") \/ StartsWith(decoded, "https://"))
    THEN IF StartsWith(decoded, "www.")
         THEN "https://" \o decoded
         ELSE "https://www." \o decoded
    ELSE decoded

(***************************************************************************)
(* Inputs: the requests clients send (request.url.path, request.url.query) *)
(***************************************************************************)
Requests ==
    { <<"/", "">>, <<"/", "a=b">>, <<"/healthz", "">>,
      <<"/favicon.ico", "">>, <<"/robots.txt", "">>, <<"/sitemap.xml", "">>,
      <<"/favicon%2Eico", "">>, <<"/favicon.ico", "v=1">>,
      <<"/example.com/page", "">>, <<"/www.example.com/page", "">>,
      <<"/https://example.com/a", "x=1">>, <<"/http%3A%2F%2Fexample.com", "">>,
      <<"/http://", "">>, <<"/https:///path", "">>, <<"/http://", "q">>,
      <<"/http://:80/", "">>, <<"/http://[::1", "">>,
      <<"//x", "">>, <<"/www.", "">>, <<"/[::1", "">> }

(***************************************************************************)
(* Optional values: None is <<>>, a value v is <<v>>                       *)
(***************************************************************************)
None == <<>>
Some(v) == <<v>>

(***************************************************************************)
(* State                                                                   *)
(*  h[r]     the handler convert_url of request r: its position, the       *)
(*           request, decoded_url and the responses sent to the client     *)
(*  w[r]     the worker thread running _run for request r: its position    *)
(*           and the locals of _run                                        *)
(*  files    the names that exist in the temporary directory               *)
(*  log[r]   what request r has done so far: calls of session.get,         *)
(*           connections opened, the status the remote answered (0: no     *)
(*           answer), converter calls, chardet calls, files created and    *)
(*           deleted                                                       *)
(*  served   the body sizes the remote servers of this run can answer      *)
(*           with; it never changes                                        *)
(***************************************************************************)
VARIABLES h, w, files, log, served

vars == <<h, w, files, log, served>>

NoExc == Exc("", "")

WorkerLocals ==
    [ pc |-> "none",            \* position in _run
      status_code |-> 0,        \* response.status_code
      remaining |-> 0,          \* bytes the remote has still to send
      content |-> 0,            \* len(content)
      content_type |-> "",      \* response.headers.get('content-type', '')
      encoding |-> None,        \* Some(name), or None
      created |-> None,         \* the file NamedTemporaryFile made (f.name)
      temp_file |-> None,       \* the local temp_file
      pending |-> NoExc,        \* exception on its way through "finally"
      result |-> "none",        \* "none", "return" or "raise"
      exc |-> NoExc ]           \* the exception _run raised

EmptyLog ==
    [ gets |-> 0, netcalls |-> 0, status |-> 0, converts |-> <<>>, detects |-> 0,
      made |-> {}, unlinked |-> {} ]

HandlerInit(req) ==
    [ pc |-> "received", path |-> req[1], query |-> req[2],
      decoded_url |-> "", caught |-> NoExc, responses |-> <<>> ]

Absent == [ pc |-> "absent", path |-> "", query |-> "",
            decoded_url |-> "", caught |-> NoExc, responses |-> <<>> ]

\* the body sizes a remote server can answer with (src/main.py:101)
BodySizes ==
    {0, 100, CHUNK_SIZE + 1, MAX_CONTENT_SIZE}
        \cup { MAX_CONTENT_SIZE + 1 + k * CHUNK_SIZE : k \in 0..MaxOverrun }

\* one request is sent; the other slots stay unused
Init ==
    /\ \E req \in Requests :
          h = [r \in Req |-> IF r = 1 THEN HandlerInit(req) ELSE Absent]
    /\ w = [r \in Req |-> WorkerLocals]
    /\ files = {}
    /\ log = [r \in Req |-> EmptyLog]
    /\ served = BodySizes

Respond(r, response) ==
    h' = [h EXCEPT ![r].pc = "done", ![r].responses = Append(@, response)]

(***************************************************************************)
(* Handler steps                                                           *)
(***************************************************************************)
\* GET /healthz (src/main.py:31-33); the route is declared before /{url:path}
healthz(r) ==
    /\ h[r].pc = "received"
    /\ h[r].path = "/healthz"
    /\ Respond(r, Response(200, "ok"))
    /\ UNCHANGED <<w, files, log, served>>

\* src/main.py:40-52
Welcome(r) ==
    /\ h[r].pc = "received"
    /\ h[r].path # "/healthz"
    /\ RawUrl(h[r].path, h[r].query) = ""
    /\ Respond(r, Response(200, WelcomeText))
    /\ UNCHANGED <<w, files, log, served>>

\* src/main.py:55-65
NotFound(r) ==
    /\ h[r].pc = "received"
    /\ h[r].path # "/healthz"
    /\ RawUrl(h[r].path, h[r].query) # ""
    /\ unquote(RawUrl(h[r].path, h[r].query)) \in NuisancePaths
    /\ Respond(r, Response(404, "Not Found"))
    /\ UNCHANGED <<w, files, log, served>>

\* src/main.py:67-81, 150, 153: normalize, hand _run to a thread, await it
StartConversion(r) ==
    /\ h[r].pc = "received"
    /\ h[r].path # "/healthz"
    /\ RawUrl(h[r].path, h[r].query) # ""
    /\ unquote(RawUrl(h[r].path, h[r].query)) \notin NuisancePaths
    /\ h' = [h EXCEPT ![r].pc = "waiting",
                      ![r].decoded_url = Normalize(unquote(RawUrl(h[r].path, h[r].query)))]
    /\ w' = [w EXCEPT ![r].pc = "urlparse"]
    /\ UNCHANGED <<files, log, served>>

\* src/main.py:153-154, 157-186: the awaited worker has ended and the event
\* loop resumes the handler with its result or its exception
WorkerDone(r) ==
    /\ h[r].pc = "waiting"
    /\ w[r].pc = "done"
    /\ IF w[r].result = "return"
       THEN h' = [h EXCEPT ![r].pc = "done",
                           ![r].responses = Append(@, Response(200, "text_content"))]
       ELSE h' = [h EXCEPT ![r].pc = "done", ![r].caught = w[r].exc,
                           ![r].responses = Append(@, ExceptClauses(w[r].exc))]
    /\ UNCHANGED <<w, files, log, served>>

\* the mutant of Timeout for C4: the handler reports the timeout only once the
\* worker thread has ended
Timeout_JoinsWorker(r) ==
    /\ h[r].pc = "waiting"
    /\ w[r].pc = "done"
    /\ h' = [h EXCEPT ![r].pc = "done",
                      ![r].caught = Exc("TimeoutError", ""),
                      ![r].responses = Append(@, ExceptClauses(Exc("TimeoutError", "")))]
    /\ UNCHANGED <<w, files, log, served>>

\* the mutant of Timeout for C17: the event loop cannot run the timeout while
\* the worker of another request is busy
Timeout_LoopBlocked(r) ==
    /\ h[r].pc = "waiting"
    /\ \A q \in Req \ {r} : w[q].pc \in {"none", "done"}
    /\ h' = [h EXCEPT ![r].pc = "done",
                      ![r].caught = Exc("TimeoutError", ""),
                      ![r].responses = Append(@, ExceptClauses(Exc("TimeoutError", "")))]
    /\ UNCHANGED <<w, files, log, served>>

\* src/main.py:153, 167-171: wait_for gives up after CONVERSION_TIMEOUT; the
\* thread is not interrupted
Timeout(r) ==
    /\ h[r].pc = "waiting"
    /\ h' = [h EXCEPT ![r].pc = "done",
                      ![r].caught = Exc("TimeoutError", ""),
                      ![r].responses = Append(@, ExceptClauses(Exc("TimeoutError", "")))]
    /\ UNCHANGED <<w, files, log, served>>

(***************************************************************************)
(* Worker steps: _run                                                      *)
(***************************************************************************)
Raise(e) == [WorkerLocals EXCEPT !.pc = "done", !.result = "raise", !.exc = e]

Return == [WorkerLocals EXCEPT !.pc = "done", !.result = "return"]

\* the mutant of Validate for C7: the netloc check is missing
Validate_NoNetlocCheck(r) ==
    /\ w[r].pc = "urlparse"
    /\ w' = [w EXCEPT ![r] =
                IF UrlparseRaises(h[r].decoded_url)
                THEN Raise(Exc("ValueError", "Invalid IPv6 URL"))
                ELSE [@ EXCEPT !.pc = "get"]]
    /\ UNCHANGED <<h, files, log, served>>

\* src/main.py:83-85
Validate(r) ==
    /\ w[r].pc = "urlparse"
    /\ w' = [w EXCEPT ![r] =
                IF UrlparseRaises(h[r].decoded_url)
                THEN Raise(Exc("ValueError", "Invalid IPv6 URL"))
                ELSE IF Netloc(h[r].decoded_url) = ""
                THEN Raise(Exc("ValueError", "Invalid URL: no domain specified"))
                ELSE [@ EXCEPT !.pc = "get"]]
    /\ UNCHANGED <<h, files, log, served>>

(***************************************************************************)
(* The remote side, as far as _run sees it (src/main.py:96-112)            *)
(***************************************************************************)
\* final status codes of the GET (redirects with a Location are followed
\* inside session.get); 204 and 304 carry no body
RemoteStatuses == {200, 204, 304, 404, 500}

RemoteBodies(status_code) == IF status_code \in {204, 304} THEN {0} ELSE served

ContentTypes ==
    { "", "application/pdf", "text/html", "text/html; charset=utf-8",
      "text/html; charset=iso-8859-1 ", "text/html; charset=bogus",
      "text/html; charset=utf-8; boundary=x", "TEXT/HTML; charset=utf-8" }

\* the codec registry (src/main.py:131-132)
KnownCodecs == {"utf-8", "iso-8859-1", "ascii", "windows-1252"}

\* chardet.detect(content)['encoding'] (src/main.py:124-125): nothing for an
\* empty buffer; a name, possibly one Python has no codec for, or nothing
DetectResults(content) ==
    IF content = 0 THEN {None}
    ELSE {None, Some("ascii"), Some("utf-8"), Some("windows-1252"), Some("EUC-TW")}

\* what convert_local / convert_stream can do (src/main.py:136, :144)
ConverterOutcomes ==
    { NoExc,
      Exc("UnsupportedFormatException", "no converter"),
      Exc("FileConversionException", "conversion failed"),
      Exc("RuntimeError", "converter crashed") }

Logged(r, field, value) == log' = [log EXCEPT ![r][field] = value]

\* the mutant of Get for C18: a failed connection is tried once more
Get_RetriesOnFailure(r) ==
    /\ w[r].pc = "get"
    /\ IF RequestsRejects(h[r].decoded_url)
       THEN /\ w' = [w EXCEPT ![r] = Raise(Exc("InvalidURL", "No host supplied"))]
            /\ Logged(r, "gets", log[r].gets + 1)
       ELSE \/ /\ w' = IF log[r].gets = 0
                        THEN w
                        ELSE [w EXCEPT ![r] = Raise(Exc("ConnectionError", "connection failed"))]
               /\ log' = [log EXCEPT ![r].gets = @ + 1, ![r].netcalls = @ + 1]
            \/ \E sc \in RemoteStatuses : \E size \in RemoteBodies(sc) :
                  /\ w' = [w EXCEPT ![r].pc = "raise_for_status",
                                    ![r].status_code = sc,
                                    ![r].remaining = size]
                  /\ log' = [log EXCEPT ![r].gets = @ + 1, ![r].netcalls = @ + 1,
                                        ![r].status = sc]
    /\ UNCHANGED <<h, files, served>>

\* src/main.py:90-96: session.get
Get(r) ==
    /\ w[r].pc = "get"
    /\ IF RequestsRejects(h[r].decoded_url)
       THEN /\ w' = [w EXCEPT ![r] = Raise(Exc("InvalidURL", "No host supplied"))]
            /\ Logged(r, "gets", log[r].gets + 1)
       ELSE \/ /\ w' = [w EXCEPT ![r] = Raise(Exc("ConnectionError", "connection failed"))]
               /\ log' = [log EXCEPT ![r].gets = @ + 1, ![r].netcalls = @ + 1]
            \/ \E sc \in RemoteStatuses : \E size \in RemoteBodies(sc) :
                  /\ w' = [w EXCEPT ![r].pc = "raise_for_status",
                                    ![r].status_code = sc,
                                    ![r].remaining = size]
                  /\ log' = [log EXCEPT ![r].gets = @ + 1, ![r].netcalls = @ + 1,
                                        ![r].status = sc]
    /\ UNCHANGED <<h, files, served>>

\* src/main.py:97: Response.raise_for_status raises for 400..599 only
RaisesForStatus(status_code) == status_code >= 400 /\ status_code < 600

RaiseForStatus(r) ==
    /\ w[r].pc = "raise_for_status"
    /\ w' = [w EXCEPT ![r] =
                IF RaisesForStatus(w[r].status_code)
                THEN Raise(Exc("HTTPError", "error status"))
                ELSE [@ EXCEPT !.pc = "iter_content"]]
    /\ UNCHANGED <<h, files, log, served>>

\* src/main.py:100-102: the next chunk is appended to content, or the loop
\* ends (106-112), or the transfer breaks
ChunkLen(remaining) == IF remaining < CHUNK_SIZE THEN remaining ELSE CHUNK_SIZE

IterContent(r) ==
    /\ w[r].pc = "iter_content"
    /\ \/ /\ w[r].remaining > 0
          /\ w' = [w EXCEPT ![r].content = @ + ChunkLen(w[r].remaining),
                            ![r].remaining = @ - ChunkLen(w[r].remaining),
                            ![r].pc = "check_size"]
       \/ /\ w[r].remaining > 0
          /\ w' = [w EXCEPT ![r] = Raise(Exc("ChunkedEncodingError", "connection broken"))]
       \/ /\ w[r].remaining = 0
          /\ \E ct \in ContentTypes :
                w' = [w EXCEPT ![r].content_type = ct, ![r].pc = "content_type"]
    /\ UNCHANGED <<h, files, log, served>>

\* the mutant of OverLimit for C15: the download stops one chunk later
OverLimit_OneChunkLate(content) == content > MAX_CONTENT_SIZE + CHUNK_SIZE

\* src/main.py:103-104
OverLimit(content) == content > MAX_CONTENT_SIZE

CheckSize(r) ==
    /\ w[r].pc = "check_size"
    /\ w' = [w EXCEPT ![r] =
                IF OverLimit(w[r].content)
                THEN Raise(Exc("ValueError", "Content size exceeds maximum limit (10.0 MB)"))
                ELSE [@ EXCEPT !.pc = "iter_content"]]
    /\ UNCHANGED <<h, files, log, served>>

\* the mutant of IsHtml for C14: the header is compared as a whole
IsHtml_ExactMatch(content_type) == content_type = "text/html"

\* src/main.py:113, 141
IsHtml(content_type) == Contains(content_type, "text/html")

Route(r) ==
    /\ w[r].pc = "content_type"
    /\ w' = [w EXCEPT ![r].pc =
                IF IsHtml(w[r].content_type) THEN "encoding" ELSE "convert_stream"]
    /\ UNCHANGED <<h, files, log, served>>

\* src/main.py:118-127
DeclaredCharset(content_type) == Strip(SplitLast(content_type, "charset="))

ResolveEncoding(r) ==
    /\ w[r].pc = "encoding"
    /\ IF Contains(w[r].content_type, "charset=")
       THEN /\ w' = [w EXCEPT ![r].encoding = Some(DeclaredCharset(w[r].content_type)),
                              ![r].pc = "tempfile"]
            /\ UNCHANGED log
       ELSE /\ Logged(r, "detects", log[r].detects + 1)
            /\ \/ \E d \in DetectResults(w[r].content) :
                     w' = [w EXCEPT ![r].encoding = d, ![r].pc = "tempfile"]
               \/ \* chardet raised: "except Exception: pass"
                  w' = [w EXCEPT ![r].encoding = Some("utf-8"), ![r].pc = "tempfile"]
    /\ UNCHANGED <<h, files, served>>

\* src/main.py:131: NamedTemporaryFile(..., delete=False, encoding=encoding);
\* on an unknown codec the library removes the file it made and raises
UnknownCodec(encoding) ==
    IF encoding = None THEN FALSE ELSE encoding[1] \notin KnownCodecs

\* the mutant of NamedTemporaryFile for C19: the name is not checked against
\* the files that exist
NamedTemporaryFile_AnyName(r) ==
    /\ w[r].pc = "tempfile"
    /\ \/ /\ UnknownCodec(w[r].encoding)
          /\ w' = [w EXCEPT ![r].pending = Exc("LookupError", "unknown encoding"),
                            ![r].pc = "finally"]
          /\ UNCHANGED <<files, log>>
       \/ /\ ~UnknownCodec(w[r].encoding)
          /\ \E name \in TempNames :
                /\ files' = files \cup {name}
                /\ Logged(r, "made", log[r].made \cup {name})
                /\ w' = [w EXCEPT ![r].created = Some(name), ![r].pc = "write"]
       \/ /\ w' = [w EXCEPT ![r].pending = Exc("OSError", "cannot create file"),
                            ![r].pc = "finally"]
          /\ UNCHANGED <<files, log>>
    /\ UNCHANGED <<h, served>>

NamedTemporaryFile(r) ==
    /\ w[r].pc = "tempfile"
    /\ \/ /\ UnknownCodec(w[r].encoding)
          /\ w' = [w EXCEPT ![r].pending = Exc("LookupError", "unknown encoding"),
                            ![r].pc = "finally"]
          /\ UNCHANGED <<files, log>>
       \/ /\ ~UnknownCodec(w[r].encoding)
          /\ \E name \in TempNames \ files :
                /\ files' = files \cup {name}
                /\ Logged(r, "made", log[r].made \cup {name})
                /\ w' = [w EXCEPT ![r].created = Some(name), ![r].pc = "write"]
       \/ \* the temporary directory cannot take a file
          /\ w' = [w EXCEPT ![r].pending = Exc("OSError", "cannot create file"),
                            ![r].pc = "finally"]
          /\ UNCHANGED <<files, log>>
    /\ UNCHANGED <<h, served>>

\* src/main.py:132-133: f.write(content.decode(encoding, errors='replace')),
\* then temp_file = f.name; bytes.decode(None) is a TypeError
Write(r) ==
    /\ w[r].pc = "write"
    /\ \/ /\ w[r].encoding = None
          /\ w' = [w EXCEPT ![r].pending = Exc("TypeError", "decode() argument 'encoding' must be str, not None"),
                            ![r].pc = "finally"]
       \/ /\ w[r].encoding # None
          /\ w' = [w EXCEPT ![r].temp_file = w[r].created, ![r].pc = "convert_local"]
       \/ /\ w[r].encoding # None
          /\ w' = [w EXCEPT ![r].pending = Exc("OSError", "No space left on device"),
                            ![r].pc = "finally"]
    /\ UNCHANGED <<h, files, log, served>>

\* src/main.py:136
ConvertLocal(r) ==
    /\ w[r].pc = "convert_local"
    /\ Logged(r, "converts", Append(log[r].converts, "convert_local"))
    /\ \E outcome \in ConverterOutcomes :
          w' = [w EXCEPT ![r].pending = outcome, ![r].pc = "finally"]
    /\ UNCHANGED <<h, files, served>>

\* src/main.py:137-140, then 146-147 or the pending exception
Unlinks(temp_file, existing) == temp_file # None /\ temp_file[1] \in existing

Finally(r) ==
    /\ w[r].pc = "finally"
    /\ IF Unlinks(w[r].temp_file, files)
       THEN /\ files' = files \ {w[r].temp_file[1]}
            /\ Logged(r, "unlinked", log[r].unlinked \cup {w[r].temp_file[1]})
       ELSE UNCHANGED <<files, log>>
    /\ w' = [w EXCEPT ![r] = IF w[r].pending = NoExc THEN Return ELSE Raise(w[r].pending)]
    /\ UNCHANGED <<h, served>>

\* src/main.py:144, 146-147
ConvertStream(r) ==
    /\ w[r].pc = "convert_stream"
    /\ Logged(r, "converts", Append(log[r].converts, "convert_stream"))
    /\ \E outcome \in ConverterOutcomes :
          w' = [w EXCEPT ![r] = IF outcome = NoExc THEN Return ELSE Raise(outcome)]
    /\ UNCHANGED <<h, files, served>>

Next ==
    \E r \in Req :
        \/ healthz(r)
        \/ Welcome(r)
        \/ NotFound(r)
        \/ StartConversion(r)
        \/ WorkerDone(r)
        \/ Timeout(r)
        \/ Validate(r)
        \/ Get(r)
        \/ RaiseForStatus(r)
        \/ IterContent(r)
        \/ CheckSize(r)
        \/ Route(r)
        \/ ResolveEncoding(r)
        \/ NamedTemporaryFile(r)
        \/ Write(r)
        \/ ConvertLocal(r)
        \/ Finally(r)
        \/ ConvertStream(r)

Spec == Init /\ [][Next]_vars

(***************************************************************************)
(* Two requests in flight at once: uvicorn accepts a second request while  *)
(* the first is awaited (src/main.py:36-37, 150-153).  The remote bodies   *)
(* are short here; the download loop is explored at full size under Spec.  *)
(***************************************************************************)
ConcRequests ==
    { <<"/healthz", "">>, <<"/", "">>, <<"/favicon.ico", "">>,
      <<"/example.com/page", "">> }

ConcBodySizes == {0, 100}

InitConc ==
    /\ \E req1, req2 \in ConcRequests :
          h = [r \in Req |-> IF r = 1 THEN HandlerInit(req1)
                             ELSE IF r = 2 THEN HandlerInit(req2)
                             ELSE Absent]
    /\ w = [r \in Req |-> WorkerLocals]
    /\ files = {}
    /\ log = [r \in Req |-> EmptyLog]
    /\ served = ConcBodySizes

SpecConc == InitConc /\ [][Next]_vars

(***************************************************************************)
(* Properties                                                              *)
(***************************************************************************)
Answered(r) == h[r].pc = "done"

\* the handler was resumed by the worker's exception e (not by the timeout)
Caught(r, cls) == Answered(r) /\ h[r].caught.cls = cls

Status(r) == h[r].responses[1].status

SizeLimitMsg == "Content size exceeds maximum limit (10.0 MB)"
NoDomainMsg == "Invalid URL: no domain specified"

\* The failure kinds of the error table and their statuses, as the table
\* assigns them: validation (no authority, invalid URL syntax), unsupported
\* format, conversion failure, timeout, fetch/transport (size limit
\* included), anything else.
TableKind(e) ==
    IF e.cls = "UnsupportedFormatException" THEN "unsupported"
    ELSE IF e.cls = "FileConversionException" THEN "conversion"
    ELSE IF e.cls = "TimeoutError" THEN "timeout"
    ELSE IF e.cls = "ValueError" /\ e.msg = SizeLimitMsg THEN "fetch"
    ELSE IF e.cls \in {"ConnectionError", "HTTPError", "ChunkedEncodingError"} THEN "fetch"
    ELSE IF e.cls \in {"ValueError", "InvalidURL"} THEN "validation"
    ELSE "internal"

TableStatus(kind) ==
    CASE kind = "validation" -> 400
      [] kind = "unsupported" -> 415
      [] kind = "conversion" -> 400
      [] kind = "timeout" -> 504
      [] kind = "fetch" -> 502
      [] kind = "internal" -> 500

\* C1: every failure that surfaces in the handler of a request that entered
\* the pipeline ends in exactly one response, whose status is the one the
\* error table assigns to the kind of the failure.  (Stated as claimed; the
\* code violates it, see C2 and C8.)
C1_EveryFailureMappedPerTable ==
    \A r \in Req :
        (Answered(r) /\ h[r].caught # NoExc) =>
            /\ Len(h[r].responses) = 1
            /\ Status(r) = TableStatus(TableKind(h[r].caught))

\* C2: when the streamed bytes exceed MAX_CONTENT_SIZE the client receives
\* 502, never 200 and never another error status.  (Stated as claimed; the
\* code answers 400.)
C2_OversizeIs502 ==
    \A r \in Req :
        (Caught(r, "ValueError") /\ h[r].caught.msg = SizeLimitMsg) => Status(r) = 502

\* C3: once _run has returned or raised, no temporary file the request
\* created exists any more.  (Stated as claimed; the code leaves the file
\* behind when the decode/write step fails.)
C3_NoTempFileAfterRun ==
    \A r \in Req : w[r].pc = "done" => log[r].made \cap files = {}

\* C4: while the handler waits for the worker, whichever stage the worker is
\* in, the timeout can end the wait at once; and a wait ended by the timeout
\* is answered with exactly one response, of status 504.
C4_TimeoutAnswers504WithoutWaiting ==
    \A r \in Req :
        /\ h[r].pc = "waiting" => ENABLED Timeout(r)
        /\ Caught(r, "TimeoutError") => (Len(h[r].responses) = 1 /\ Status(r) = 504)

\* C4 witness: 504 has been sent while the worker is in the middle of the
\* download.
C4_Witness ==
    /\ Caught(1, "TimeoutError")
    /\ Status(1) = 504
    /\ w[1].pc = "iter_content"
    /\ w[1].content > 0
    /\ w[1].remaining > 0

\* C5: when the converter's unsupported-format error reaches the handler the
\* status is 415, and when its conversion-failure error reaches the handler
\* the status is 400; neither is answered with 502, 504 or 500.
C5_ConverterErrorsMap ==
    \A r \in Req :
        /\ Caught(r, "UnsupportedFormatException") => Status(r) = 415
        /\ Caught(r, "FileConversionException") => Status(r) = 400
        /\ (Caught(r, "UnsupportedFormatException") \/ Caught(r, "FileConversionException"))
              => (Len(h[r].responses) = 1 /\ Status(r) \notin {502, 504, 500})

\* C5 witness: convert_local raised the unsupported-format error and the
\* client got 415.
C5_Witness ==
    /\ Caught(1, "UnsupportedFormatException")
    /\ log[1].converts = <<"convert_local">>
    /\ Status(1) = 415

\* C6: after a remote answer whose status is outside 2xx, or a transport
\* failure of the GET, the converter is never invoked and a response that is
\* not the timeout's is 502.  (Stated as claimed; the code goes on to
\* convert after a 3xx answer.)
C6_Non2xxStopsAtFetch ==
    \A r \in Req :
        (log[r].netcalls > 0 /\ ~(log[r].status >= 200 /\ log[r].status < 300)) =>
            /\ log[r].converts = <<>>
            /\ (Answered(r) /\ ~Caught(r, "TimeoutError")) => Status(r) = 502

\* C7: when the normalized URL has an empty authority, session.get is never
\* called and no connection is opened, _run ends by raising the "no domain"
\* validation error, and the response that error produces is 400 with that
\* message.
C7_EmptyAuthorityFailsBeforeGet ==
    \A r \in Req :
        (h[r].pc \in {"waiting", "done"} /\ h[r].decoded_url # ""
            /\ Netloc(h[r].decoded_url) = "") =>
            /\ log[r].gets = 0
            /\ log[r].netcalls = 0
            /\ w[r].pc \in {"urlparse", "done"}
            /\ w[r].pc = "done" => (w[r].result = "raise" /\ w[r].exc = Exc("ValueError", NoDomainMsg))
            /\ (Answered(r) /\ ~Caught(r, "TimeoutError")) =>
                  h[r].responses = <<HTTPException(400, NoDomainMsg)>>

\* C7 witness: a request for "http://" was answered 400 "no domain".
C7_Witness ==
    /\ Answered(1)
    /\ h[1].decoded_url = "http://"
    /\ h[1].responses = <<HTTPException(400, NoDomainMsg)>>
    /\ log[1].gets = 0

\* C8: every validation failure (no authority, a URL the parser rejects, a
\* URL the HTTP client refuses before connecting) is answered 400 with the
\* reason in the message, never 502.  (Stated as claimed; the code answers
\* 502 when the HTTP client refuses the URL.)
C8_ValidationIs400 ==
    \A r \in Req :
        (Answered(r) /\ h[r].caught # NoExc /\ TableKind(h[r].caught) = "validation") =>
            /\ Status(r) = 400
            /\ Contains(h[r].responses[1].body, h[r].caught.msg)

\* C9: a request is answered with the welcome text exactly when its path is
\* "/" and it has no query; the answer is 200, and no worker is started and
\* nothing is fetched for it.
C9_EmptyPathIsWelcome ==
    \A r \in Req :
        Answered(r) =>
            /\ (h[r].path = "/" /\ h[r].query = "")
                  <=> h[r].responses = <<Response(200, WelcomeText)>>
            /\ (h[r].path = "/" /\ h[r].query = "") =>
                  (w[r].pc = "none" /\ log[r] = EmptyLog /\ h[r].decoded_url = "")

\* C9 witness: the request "/" was answered with the welcome text.
C9_Witness ==
    /\ Answered(1)
    /\ h[1].path = "/" /\ h[1].query = ""
    /\ h[1].responses = <<Response(200, WelcomeText)>>

\* the requests of the model whose decoded raw path is a nuisance path
C10_NuisanceRequests ==
    { <<"/favicon.ico", "">>, <<"/robots.txt", "">>, <<"/sitemap.xml", "">>,
      <<"/favicon%2Eico", "">> }

\* C10: a request whose percent-decoded raw path is favicon.ico, robots.txt
\* or sitemap.xml never gets past the handler's first step: it is answered
\* 404 "Not Found", with no normalization, no worker and no fetch.
C10_NuisancePathIs404 ==
    \A r \in Req :
        (<<h[r].path, h[r].query>> \in C10_NuisanceRequests /\ h[r].pc # "received") =>
            /\ h[r].responses = <<Response(404, "Not Found")>>
            /\ h[r].pc = "done"
            /\ h[r].decoded_url = ""
            /\ w[r].pc = "none"
            /\ log[r] = EmptyLog

\* C10 witness: the percent-encoded "favicon%2Eico" was answered 404.
C10_Witness ==
    /\ Answered(1)
    /\ h[1].path = "/favicon%2Eico"
    /\ h[1].responses = <<Response(404, "Not Found")>>

\* the decoded raw path of a request that entered the pipeline
DecodedPath(r) == unquote(RawUrl(h[r].path, h[r].query))

InPipeline(r) == h[r].pc \in {"waiting", "done"} /\ h[r].decoded_url # ""

HasScheme(p) == StartsWith(p, "http://") \/ StartsWith(p, "https://")

\* the reference function of C11
C11_Reference(p) ==
    IF HasScheme(p) THEN p
    ELSE IF StartsWith(p, "www.") THEN "https://" \o p
    ELSE "https://www." \o p

\* C11: the URL the handler hands to the worker is the reference function of
\* the decoded path; it starts with http:// or https://, and normalizing it
\* again changes nothing.
C11_NormalizationIsReference ==
    \A r \in Req :
        InPipeline(r) =>
            /\ h[r].decoded_url = C11_Reference(DecodedPath(r))
            /\ HasScheme(h[r].decoded_url)
            /\ Normalize(h[r].decoded_url) = h[r].decoded_url

\* C11 witness: "www.example.com/page" got "https://" only.
C11_Witness ==
    /\ InPipeline(1)
    /\ DecodedPath(1) = "www.example.com/page"
    /\ h[1].decoded_url = "https://www.example.com/page"

\* C12: for a fetched text/html response, whatever the declared charset and
\* whatever detection returns, the decode step does not fail: when _run
\* reaches its cleanup without the file system having failed, the converter
\* has been called.  (Stated as claimed; the code fails with LookupError on
\* an unknown charset and with TypeError when detection returns nothing.)
C12_DecodeNeverFails ==
    \A r \in Req :
        (w[r].pc = "finally" /\ w[r].pending.cls # "OSError") =>
            log[r].converts = <<"convert_local">>

\* the positions of _run between the choice of the encoding and the cleanup
AfterEncoding == {"tempfile", "write", "convert_local", "finally"}

\* the charset each text/html header of the model declares
C13_Declared(content_type) ==
    CASE content_type = "text/html; charset=utf-8" -> "utf-8"
      [] content_type = "text/html; charset=iso-8859-1 " -> "iso-8859-1"
      [] content_type = "text/html; charset=bogus" -> "bogus"
      [] content_type = "text/html; charset=utf-8; boundary=x" -> "utf-8"

\* C13: when the text/html header carries charset=, the encoding used is the
\* declared charset and chardet is never called; without charset= chardet
\* is called.  (Stated as claimed; the code takes everything after the last
\* "charset=", so a parameter that follows the charset becomes part of the
\* encoding name.)
C13_DeclaredCharsetIsUsed ==
    \A r \in Req :
        w[r].pc \in AfterEncoding =>
            IF Contains(w[r].content_type, "charset=")
            THEN /\ w[r].encoding = Some(C13_Declared(w[r].content_type))
                 /\ log[r].detects = 0
            ELSE log[r].detects = 1

\* the headers of the model that contain text/html
C14_HtmlTypes ==
    { "text/html", "text/html; charset=utf-8", "text/html; charset=iso-8859-1 ",
      "text/html; charset=bogus", "text/html; charset=utf-8; boundary=x" }

\* C14: the branch is chosen by the content-type alone: the steps of the
\* file-path variant are taken exactly for headers containing text/html,
\* convert_local runs on an existing temporary file this request made, and a
\* request sent to convert_stream never creates a temporary file.
C14_RoutingByContentType ==
    \A r \in Req :
        /\ w[r].pc \in {"encoding", "tempfile", "write", "convert_local"}
              => w[r].content_type \in C14_HtmlTypes
        /\ w[r].pc = "convert_stream"
              => (w[r].content_type \notin C14_HtmlTypes /\ log[r].made = {})
        /\ w[r].pc = "convert_local"
              => (w[r].temp_file # None /\ w[r].temp_file[1] \in files \cap log[r].made)
        /\ log[r].converts \in {<<>>, <<"convert_local">>, <<"convert_stream">>}
        /\ log[r].converts = <<"convert_stream">> => log[r].made = {}
        /\ log[r].converts = <<"convert_local">> => log[r].made # {}

\* C14 witness: a response without content-type went through convert_stream,
\* no temporary file was made, and the client got the text.
C14_Witness ==
    /\ Answered(1) /\ Status(1) = 200
    /\ log[1].converts = <<"convert_stream">>
    /\ log[1].made = {}
    /\ files = {}

C16_AbandonedWorkerLeavesNothing ==
    \A r \in Req :
        Caught(r, "TimeoutError") =>
            /\ Len(h[r].responses) = 1
            /\ Status(r) = 504
            /\ w[r].pc = "done" => log[r].made \cap files = {}

\* C17: whatever the workers of the other requests are doing, the event loop
\* can take the next handler step of any request: a request just received
\* can be answered (ok, welcome, 404) or started, and a request that awaits
\* its worker can be answered 504 by its own timeout.
C17_SchedulerStaysFree ==
    \A r \in Req :
        /\ h[r].pc = "received"
              => ENABLED (healthz(r) \/ Welcome(r) \/ NotFound(r) \/ StartConversion(r))
        /\ h[r].pc = "waiting" => ENABLED Timeout(r)
        /\ (h[r].pc = "waiting" /\ w[r].pc = "done") => ENABLED WorkerDone(r)

\* C17 witness: request 2 got its own 504 while its worker sits in the fetch
\* and the worker of request 1 sits in the converter, request 1 still waiting.
C17_Witness ==
    /\ h[1].pc = "waiting" /\ w[1].pc = "convert_local"
    /\ Caught(2, "TimeoutError") /\ Status(2) = 504
    /\ w[2].pc = "get"

\* the worker of request r holds a temporary file it has created
HoldsFile(r) == w[r].pc \in {"write", "convert_local", "finally"} /\ w[r].created # None

\* C19: two workers never hold the same temporary file name, the file a
\* worker writes or converts exists (nobody else deleted it), and a worker
\* deletes only names it made itself.
C19_OwnTempFile ==
    /\ \A r1, r2 \in Req :
          (r1 # r2 /\ HoldsFile(r1) /\ HoldsFile(r2)) => w[r1].created # w[r2].created
    /\ \A r \in Req :
          /\ HoldsFile(r) => (w[r].created[1] \in files /\ w[r].created[1] \in log[r].made)
          /\ log[r].unlinked \subseteq log[r].made
          /\ w[r].temp_file # None => w[r].temp_file = w[r].created

\* C19 witness: request 1 has deleted its file and ended while request 2 is
\* still converting its own file, which exists.
C19_Witness ==
    /\ w[1].pc = "done" /\ log[1].unlinked # {}
    /\ w[2].pc = "convert_local"
    /\ w[2].temp_file # None /\ w[2].temp_file[1] \in files
    /\ log[1].made \cap log[2].made = {}

\* the positions of _run, in program order
FetchSteps == {"raise_for_status", "iter_content", "check_size", "content_type"}
DecodeSteps == {"encoding", "tempfile", "write"}
ConvertSteps == {"convert_local", "convert_stream"}

\* C18: within one request validate, fetch, decode, convert and respond run
\* in this order, each only after the one before it succeeded; session.get
\* is called at most once and the converter at most once.
C18_StagesInOrderAndOnce ==
    \A r \in Req :
        /\ log[r].gets <= 1
        /\ Len(log[r].converts) <= 1
        /\ Len(h[r].responses) <= 1
        /\ w[r].pc = "urlparse" => (log[r].gets = 0 /\ log[r].converts = <<>>)
        /\ w[r].pc = "get"
              => /\ log[r].gets = 0 /\ log[r].converts = <<>>
                 /\ Netloc(h[r].decoded_url) # ""
        /\ w[r].pc \in FetchSteps
              => (log[r].gets = 1 /\ log[r].converts = <<>> /\ log[r].detects = 0)
        /\ w[r].pc \in DecodeSteps \cup ConvertSteps
              => /\ log[r].gets = 1 /\ log[r].converts = <<>>
                 /\ ~RaisesForStatus(w[r].status_code)
                 /\ w[r].remaining = 0
                 /\ w[r].content <= MAX_CONTENT_SIZE
        /\ w[r].pc = "convert_local"
              => (w[r].encoding # None /\ w[r].temp_file # None)
        /\ log[r].detects > 0 => log[r].gets = 1
        /\ log[r].converts # <<>>
              => (log[r].gets = 1 /\ ~RaisesForStatus(log[r].status))
        /\ h[r].pc = "waiting" => h[r].responses = <<>>
        /\ (Answered(r) /\ h[r].responses = <<Response(200, "text_content")>>)
              => /\ Len(log[r].converts) = 1
                 /\ w[r].pc = "done" /\ w[r].result = "return"

\* C18 witness: an html page went through all five stages once.
C18_Witness ==
    /\ Answered(1) /\ h[1].responses = <<Response(200, "text_content")>>
    /\ log[1].gets = 1
    /\ log[1].detects = 1
    /\ log[1].converts = <<"convert_local">>
    /\ log[1].unlinked = log[1].made /\ log[1].made # {}

\* the worker of request r has ended, with or without an exception
WorkerEnded(r) == InPipeline(r) /\ w[r].pc = "done"

InvalidIPv6 == Exc("ValueError", "Invalid IPv6 URL")

\* C20 as claimed: every path that gets a prefix added passes validation and
\* always goes on to the network fetch.  (A path with an unbalanced "[" makes
\* urlparse itself raise.)
C20_PrefixedAlwaysFetches ==
    \A r \in Req :
        (WorkerEnded(r) /\ ~HasScheme(DecodedPath(r))) => log[r].gets = 1

\* C20 as amended: the "no domain" failure happens only for paths that came
\* with their own http:// or https://; a path that gets a prefix has an
\* authority that begins with "www.", never fails the domain check, and goes
\* on to session.get unless urlparse itself rejects the URL, which takes a
\* "[" in the path.
C20_NoDomainOnlyWithOwnScheme ==
    \A r \in Req :
        /\ (WorkerEnded(r) /\ w[r].exc.msg = NoDomainMsg) => HasScheme(DecodedPath(r))
        /\ (InPipeline(r) /\ ~HasScheme(DecodedPath(r)))
              => /\ StartsWith(h[r].decoded_url, "https://www.")
                 /\ w[r].pc \notin {"none", "urlparse", "done"}
                       => StartsWith(Netloc(h[r].decoded_url), "www.")
                 /\ w[r].pc = "done"
                       => \/ log[r].gets = 1
                          \/ /\ w[r].exc = InvalidIPv6
                             /\ Contains(DecodedPath(r), "[")
                             /\ log[r].gets = 0

\* C20 witness: the query-only request "?a=b" names no host and is fetched
\* all the same.
C20_Witness ==
    /\ WorkerEnded(1)
    /\ DecodedPath(1) = "?a=b"
    /\ h[1].decoded_url = "https://www.?a=b"
    /\ log[1].gets = 1

(***************************************************************************)
(* Worked examples of the string operators, checked against Python         *)
(***************************************************************************)
StringExamples == /\ unquote("favicon%2Eico") = "favicon.ico"
      /\ unquote("http%3A%2F%2fexample.com") = "http://example.com"
      /\ unquote("100%") = "100%"
      /\ unquote("%zz%41") = "%zzA"
      /\ unquote("%5c%22") = "\\\""
      /\ Strip("  utf-8 \t") = "utf-8"
      /\ SplitLast("text/html; charset=utf-8", "charset=") = "utf-8"
      /\ SplitLast("charset=a;charset=b", "charset=") = "b"
      /\ SplitLast("abc", "charset=") = "abc"
      /\ Contains("x text/html y", "text/html")
      /\ ~Contains("TEXT/HTML", "text/html")
      /\ ~Contains("", "text/html")
      /\ StartsWith("https://a", "https://")
      /\ ~StartsWith("http", "http://")
      /\ Netloc("http://") = "" /\ Netloc("https:///path") = ""
      /\ Netloc("http://?q") = "" /\ Netloc("http://:80/") = ":80"
      /\ Netloc("https://www.?a=b") = "www." /\ Netloc("https://www./x") = "www."
      /\ Netloc("https://www.favicon.ico?v=1") = "www.favicon.ico"
      /\ Netloc("http://#f") = "" /\ Netloc("https://u:p@h.com:8/x") = "u:p@h.com:8"
      /\ Netloc("example.com/x") = "" /\ Netloc("//h/x") = "h"
      /\ UrlparseRaises("http://[::1") /\ ~UrlparseRaises("http://[::1]:80/")
      /\ Host("u:p@h.com:8") = "h.com" /\ Host("[::1]:80") = "[::1]" /\ Host(":80") = ""
      /\ RequestsRejects("http://:80/") /\ RequestsRejects("http://*.example.com")
      /\ ~RequestsRejects("https://www.") /\ ~RequestsRejects("https://www.example.com/page")
      /\ Normalize("example.com/page") = "https://www.example.com/page"
      /\ Normalize("www.example.com/page") = "https://www.example.com/page"
      /\ Normalize("http://a") = "http://a" /\ Normalize("HTTP://a") = "https://www.HTTP://a"
      /\ UrlparseRaises("https://www.[::1") /\ Netloc("https://www.[::1") = "www.[::1"
      /\ Len(PrintableLow) = 64 /\ Len(PrintableHigh) = 30
====
